---- MODULE Spec2Model ----
(***************************************************************************)
(* A model of the freeplay-skills scripts:                                 *)
(*   scripts/secrets.py       SecretString, _SECRET_PATTERNS,              *)
(*                            redact_secrets, safe_error_message           *)
(*   dataset-management/scripts/import_testcases.py   main, batch_upload   *)
(*   dataset-management/scripts/batch_operations.py   get_freeplay_config, *)
(*                            batch_create_test_cases,                     *)
(*                            batch_delete_test_cases                      *)
(*   scripts/get_deployed_prompts.py                  get_config,          *)
(*                            list_projects                                *)
(*                                                                         *)
(* A Python str is a sequence of one-character strings.  Positions are     *)
(* 1-based, the end of a match is exclusive.                               *)
(***************************************************************************)
EXTENDS Integers, Sequences, FiniteSets, TLC

VARIABLES
    \* SecretString objects (secrets.py)
    rawA, rawB,         \* the _value of two SecretString instances
    shown,              \* the last displayed form: [op, a, b]
    \* redaction (secrets.py)
    text,               \* input of safe_error_message / redact_secrets
    max_length,         \* the max_length argument
    order,              \* the order the rules are applied in
    out,                \* result of the last call
    out2,               \* result of applying safe_error_message to out
    rpc,                \* position of the redaction run
    \* batch loops (import_testcases.py, batch_operations.py)
    op,                 \* "import", "create" or "delete"
    test_cases,         \* the list to send (test_case_ids for delete)
    batch_size,         \* --batch-size / the batch_size argument
    verbose,            \* the verbose argument (batch_operations.py)
    pc,                 \* where the run is
    i,                  \* the loop variable of range(0, len, batch_size)
    batch_num,          \* batch number of the last chunk, as printed
    total_batches,      \* total number of batches, as printed
    total_uploaded,     \* total_uploaded / total_deleted
    successful_batches, \* successful_batches (batch_upload)
    requests,           \* the HTTP calls issued so far: [start, items]
    outcomes,           \* how each completed call ended: [kind, reported]
    lastErr,            \* the failure text printed last: [src, raw, printed]
    missing,            \* the variable names printed as missing
    \* configuration (batch_operations.py, import_testcases.py,
    \* get_deployed_prompts.py)
    environ,            \* os.environ's three variables when the entry point ran
    project_arg,        \* --project-id as get_config was given it
    gets                \* the GET calls list_projects has issued

secretVars == <<rawA, rawB, shown>>
redactVars == <<text, max_length, order, out, out2, rpc>>
batchVars == <<op, test_cases, batch_size, verbose, pc, i, batch_num,
               total_batches, total_uploaded, successful_batches, requests,
               outcomes, lastErr, missing, environ, project_arg, gets>>
vars == <<secretVars, redactVars, batchVars>>

-----------------------------------------------------------------------------
(* Characters                                                              *)

UpperCase == <<"A","B","C","D","E","F","G","H","I","J","K","L","M",
               "N","O","P","Q","R","S","T","U","V","W","X","Y","Z">>
LowerCase == <<"a","b","c","d","e","f","g","h","i","j","k","l","m",
               "n","o","p","q","r","s","t","u","v","w","x","y","z">>
Digits == {"0","1","2","3","4","5","6","7","8","9"}
Range(s) == {s[ix] : ix \in DOMAIN s}

ToLower == [c \in Range(UpperCase) |->
              LowerCase[CHOOSE ix \in 1..26 : UpperCase[ix] = c]]
\* re.IGNORECASE on ASCII text: compare case-folded characters
Lower(c) == IF c \in DOMAIN ToLower THEN ToLower[c] ELSE c

\* \s on str (Unicode whitespace), for the characters up to U+00FF: space,
\* \t, \n, \r, \f, and as raw characters \x0b (\v), \x1c, \x1d, \x1e, \x1f,
\* \x85 (NEL) and \xa0 (no-break space); the whitespace above U+00FF
\* (U+1680, U+2000-200A, U+2028, U+2029, U+202F, U+205F, U+3000) cannot be
\* written in a string of the model
IsSpace(c) == c \in {" ", "\t", "\n", "\r", "\f",
                     "", "", "", "", "", "", " "}
\* ["\']
IsQuote(c) == c \in {"\"", "'"}
\* [A-Za-z0-9_\-\.]
IsTokenChar(c) ==
    c \in Range(UpperCase) \cup Range(LowerCase) \cup Digits \cup {"_", "-", "."}

InClass(cls, c) ==
    CASE cls = "space"    -> IsSpace(c)
      [] cls = "quote"    -> IsQuote(c)
      [] cls = "token"    -> IsTokenChar(c)
      [] cls = "us"       -> c \in {"_", "-"}                  \* [_-]
      [] cls = "colon"    -> c = ":"
      [] cls = "eq"       -> c = "="
      [] cls = "sep"      -> c \in {":", "="}                  \* [:=]
      [] cls = "authval"  -> ~IsQuote(c) /\ c # "}" /\ ~IsSpace(c) \* [^"\'}\s]
      [] cls = "nonspace" -> ~IsSpace(c)                       \* [^\s]

-----------------------------------------------------------------------------
(* Regular expressions of _SECRET_PATTERNS                                 *)

Inf == 1000000
Lit(s) == [t |-> "lit", s |-> s]
Rep(cls, lo, hi) == [t |-> "rep", cls |-> cls, lo |-> lo, hi |-> hi]
Opt(cls) == Rep(cls, 0, 1)
Star(cls) == Rep(cls, 0, Inf)
Plus(cls) == Rep(cls, 1, Inf)
One(cls) == Rep(cls, 1, 1)

\* Each pattern is (group 1)(last element): group 1 is every element but the
\* last, the last element is the secret's character class, repeated.
PatBearer ==
    << Lit(<<"b","e","a","r","e","r">>), Plus("space"), Plus("token") >>
PatAuthorization ==
    << Lit(<<"a","u","t","h","o","r","i","z","a","t","i","o","n">>),
       Opt("quote"), Star("space"), One("colon"), Star("space"), Opt("quote"),
       Plus("authval") >>
\* a slip in the api key rule: '=' is the only separator
PatApiKeyEqOnly ==
    << Lit(<<"a","p","i">>), Opt("us"), Lit(<<"k","e","y">>),
       Opt("quote"), Star("space"), One("eq"), Star("space"), Opt("quote"),
       Plus("token") >>
PatApiKey ==
    << Lit(<<"a","p","i">>), Opt("us"), Lit(<<"k","e","y">>),
       Opt("quote"), Star("space"), One("sep"), Star("space"), Opt("quote"),
       Plus("token") >>
PatSecret ==
    << Lit(<<"s","e","c","r","e","t">>),
       Opt("quote"), Star("space"), One("sep"), Star("space"), Opt("quote"),
       Plus("token") >>
PatToken ==
    << Lit(<<"t","o","k","e","n">>),
       Opt("quote"), Star("space"), One("sep"), Star("space"), Opt("quote"),
       Plus("token") >>
PatFreeplay ==
    << Lit(<<"f","r","e","e","p","l","a","y","_","a","p","i","_","k","e","y">>),
       Star("space"), One("eq"), Star("space"),
       Plus("nonspace") >>

SECRET_PATTERNS ==
    << PatBearer, PatAuthorization, PatApiKey, PatSecret, PatToken, PatFreeplay >>

REDACTED == <<"[","R","E","D","A","C","T","E","D","]">>

\* the literal lit (lower case) is at position pos of s, ignoring case
LitAt(s, lit, pos) ==
    /\ pos + Len(lit) - 1 <= Len(s)
    /\ \A j \in 1..Len(lit) : Lower(s[pos + j - 1]) = lit[j]

\* number of consecutive characters of class cls from position pos, at most hi
RECURSIVE RunLen(_, _, _, _)
RunLen(s, cls, pos, hi) ==
    IF hi = 0 \/ pos > Len(s) \/ ~InClass(cls, s[pos]) THEN 0
    ELSE 1 + RunLen(s, cls, pos + 1, hi - 1)

\* Backtracking match of elements k.. of pat at position pos, as re does it:
\* a repetition takes as many characters as it can and gives them back one
\* at a time while the rest fails.  The result is <<g, e>>: g where the last
\* element (the text after group 1) starts and e the end of the match, or
\* <<>> when there is no match.
RECURSIVE MatchFrom(_, _, _, _)
RECURSIVE TryRep(_, _, _, _, _)
MatchFrom(s, pat, k, pos) ==
    LET el == pat[k] IN
    IF el.t = "lit" THEN
        IF LitAt(s, el.s, pos) THEN MatchFrom(s, pat, k + 1, pos + Len(el.s))
        ELSE <<>>
    ELSE TryRep(s, pat, k, pos, RunLen(s, el.cls, pos, el.hi))
TryRep(s, pat, k, pos, m) ==
    IF m < pat[k].lo THEN <<>>
    ELSE IF k = Len(pat) THEN <<pos, pos + m>>
    ELSE LET r == MatchFrom(s, pat, k + 1, pos + m) IN
         IF r # <<>> THEN r ELSE TryRep(s, pat, k, pos, m - 1)

MatchAt(s, pat, pos) == MatchFrom(s, pat, 1, pos)

\* pattern.search(s) is not None
Matches(s, pat) == \E p \in 1..Len(s) : MatchAt(s, pat, p) # <<>>

\* a slip in the template: '[REDACTED]' without the \1
ReplacementNoGroup(s, pos, m) == REDACTED
\* The replacement template r'\1[REDACTED]' for a match <<g, e>> at pos
Replacement(s, pos, m) == SubSeq(s, pos, m[1] - 1) \o REDACTED

\* the start of the leftmost match of pat in s at or after pos, 0 if none
NextMatch(s, pat, pos) ==
    LET starts == {p \in pos..Len(s) : MatchAt(s, pat, p) # <<>>} IN
    IF starts = {} THEN 0
    ELSE CHOOSE p \in starts : \A q \in starts : p <= q

\* pattern.sub(replacement, s): the leftmost match at or after pos is replaced
\* and the scan goes on from its end; text between matches is copied.
RECURSIVE SubFrom(_, _, _)
SubFrom(s, pat, pos) ==
    LET q == NextMatch(s, pat, pos) IN
    IF q = 0 THEN SubSeq(s, pos, Len(s))
    ELSE LET m == MatchAt(s, pat, q) IN
         SubSeq(s, pos, q - 1) \o Replacement(s, q, m) \o SubFrom(s, pat, m[2])

Sub(pat, s) == SubFrom(s, pat, 1)

\* a slip in the loop: the last rule of the list is never applied
RECURSIVE RedactSkipLast(_, _, _)
RedactSkipLast(s, ord, k) ==
    IF k >= Len(ord) THEN s
    ELSE RedactSkipLast(Sub(SECRET_PATTERNS[ord[k]], s), ord, k + 1)
\* the loop of redact_secrets over the rules ord[1], ord[2], ...
RECURSIVE RedactInOrder(_, _, _)
RedactInOrder(s, ord, k) ==
    IF k > Len(ord) THEN s
    ELSE RedactInOrder(Sub(SECRET_PATTERNS[ord[k]], s), ord, k + 1)

ListedOrder == [ix \in 1..Len(SECRET_PATTERNS) |-> ix]

redact_secrets(s) == RedactInOrder(s, ListedOrder, 1)

TRUNCATED == <<".",".","."," ","[","t","r","u","n","c","a","t","e","d","]">>
DefaultMaxLength == 500

\* Python's s[:n] for any integer n
SliceTo(s, n) ==
    IF n >= 0 THEN SubSeq(s, 1, IF n < Len(s) THEN n ELSE Len(s))
    ELSE SubSeq(s, 1, IF Len(s) + n > 0 THEN Len(s) + n ELSE 0)

\* a slip in the comparison: >= for >
safe_error_message_ge(response_text, maxlen) ==
    LET redacted == redact_secrets(response_text) IN
    IF Len(redacted) >= maxlen
    THEN SliceTo(redacted, maxlen) \o TRUNCATED
    ELSE redacted
safe_error_message(response_text, maxlen) ==
    LET redacted == redact_secrets(response_text) IN
    IF Len(redacted) > maxlen
    THEN SliceTo(redacted, maxlen) \o TRUNCATED
    ELSE redacted


-----------------------------------------------------------------------------
(* SecretString                                                            *)

\* Optional[str]: None, or a str
None == [some |-> FALSE, v |-> <<>>]
Some(s) == [some |-> TRUE, v |-> s]

\* Python truth value of an Optional[str]
Truthy(v) == v.some /\ v.v # <<>>

\* SecretString.get
SecretGet(value) == value
\* a slip in __str__: tests "is not None" instead of truth
SecretStrNotNone(value) == IF value.some THEN <<"[","R","E","D","A","C","T","E","D","]">> ELSE <<>>
\* SecretString.__str__
SecretStr(value) == IF Truthy(value) THEN REDACTED ELSE <<>>
\* a slip in __repr__: masks the value character by character
SecretReprMasked(value) ==
    IF Truthy(value)
    THEN <<"S","e","c","r","e","t","S","t","r","i","n","g","(">>
            \o [ix \in 1..Len(value.v) |-> "*"] \o <<")">>
    ELSE <<"S","e","c","r","e","t","S","t","r","i","n","g","(","N","o","n","e",")">>
\* SecretString.__repr__
ReprSet == <<"S","e","c","r","e","t","S","t","r","i","n","g","(">> \o REDACTED \o <<")">>
ReprNone == <<"S","e","c","r","e","t","S","t","r","i","n","g","(","N","o","n","e",")">>
SecretRepr(value) == IF Truthy(value) THEN ReprSet ELSE ReprNone
\* SecretString.__bool__
SecretBool(value) == Truthy(value)

\* raw values a SecretString is constructed from (os.environ.get(...))
MaxSecretLen == 2
SecretAlphabet == {"s", "k"}
RawValues ==
    {None} \cup {Some(s) : s \in UNION {[1..n -> SecretAlphabet] : n \in 0..MaxSecretLen}}

SecretInit ==
    /\ rawA \in RawValues
    /\ rawB \in RawValues
    /\ shown = [op |-> "new"]

\* print(a), print(b) / f"{a}"
Str ==
    /\ shown' = [op |-> "str", a |-> SecretStr(rawA), b |-> SecretStr(rawB)]
    /\ UNCHANGED <<rawA, rawB, redactVars, batchVars>>
Repr ==
    /\ shown' = [op |-> "repr", a |-> SecretRepr(rawA), b |-> SecretRepr(rawB)]
    /\ UNCHANGED <<rawA, rawB, redactVars, batchVars>>
Bool ==
    /\ shown' = [op |-> "bool", a |-> SecretBool(rawA), b |-> SecretBool(rawB)]
    /\ UNCHANGED <<rawA, rawB, redactVars, batchVars>>
Get ==
    /\ shown' = [op |-> "get", a |-> SecretGet(rawA), b |-> SecretGet(rawB)]
    /\ UNCHANGED <<rawA, rawB, redactVars, batchVars>>

SecretNext == Str \/ Repr \/ Bool \/ Get

-----------------------------------------------------------------------------
(* Inputs of the redaction functions                                       *)

RECURSIVE Concat(_)
Concat(ss) == IF ss = <<>> THEN <<>> ELSE Head(ss) \o Concat(Tail(ss))

Pad(n) == [ix \in 1..n |-> "a"]

\* Pieces of response text: the labels the rules look for, with a separator,
\* and what may follow them.
FBearer == <<"B","e","a","r","e","r"," ">>
FAuth == <<"A","u","t","h","o","r","i","z","a","t","i","o","n",":"," ">>
FApiKey == <<"a","p","i","_","k","e","y","=">>
FSecret == <<"s","e","c","r","e","t",":"," ">>
FToken == <<"t","o","k","e","n","=">>
FFreeplay == <<"F","R","E","E","P","L","A","Y","_","A","P","I","_","K","E","Y","=">>
FWord == <<"a","b","c">>
FBang == <<"!">>
FSpace == <<" ">>
FQuote == <<"\"">>
\* a vertical tab, as a raw character
FVTab == <<"">>
Frags == {FBearer, FAuth, FApiKey, FToken, FWord, FBang, FSpace, FQuote, FVTab}

MaxFrags == 3
TextsOf(frags, n) == {Concat(fs) : fs \in UNION {[1..k -> frags] : k \in 0..n}}

\* "Error 401: Authorization: Bearer <t1>, api_key: <t2>"
Error401 == <<"E","r","r","o","r"," ","4","0","1",":"," ">>
Scenario(t1, t2) ==
    Error401 \o FAuth \o FBearer \o t1
        \o <<","," ","a","p","i","_","k","e","y",":"," ">> \o t2
Tokens == { <<"a","b","c","d","e","f","g","h","i","j">>,
            <<"z","z","z","z","z","z">>,
            <<"s","k","-","a","b","c","1","2","3">>,
            <<"X","Y","Z","9","8","7">> }
ScenarioTexts == {Scenario(t1, t2) : t1 \in Tokens, t2 \in Tokens}

ShortTexts == TextsOf(Frags, MaxFrags) \cup ScenarioTexts

\* Texts for the order of the rules: the label of every rule, and a word
MaxOrderFrags == 3
OrderFrags == {FBearer, FAuth, FApiKey, FSecret, FToken, FFreeplay, FWord}
OrderTexts == TextsOf(OrderFrags, MaxOrderFrags)

\* max_length arguments: negative, small, and the default
NegLen == 2
SmallLen == 4
MaxLengths == (0 - NegLen)..SmallLen \cup {DefaultMaxLength}

\* Orders the rules may be applied in: the listed order, the listed order
\* with two rules exchanged, and the reverse order.
Swap(ix, j) == [k \in 1..Len(SECRET_PATTERNS) |->
                 IF k = ix THEN j ELSE IF k = j THEN ix ELSE k]
ReverseOrder == [k \in 1..Len(SECRET_PATTERNS) |-> Len(SECRET_PATTERNS) + 1 - k]
Orders == {Swap(ix, j) : ix, j \in 1..Len(SECRET_PATTERNS)} \cup {ReverseOrder}

\* Texts long enough for the default max_length to truncate them: padding,
\* then a few pieces that end up around the cut.
PadSlack == 16
MaxLongFrags == 2
PadLens == (DefaultMaxLength - PadSlack)..DefaultMaxLength
LongFrags == {FBearer, FAuth, FToken, FWord, FBang, FSpace, REDACTED}
LongTexts == {Pad(n) \o t : n \in PadLens \cup {0}, t \in TextsOf(LongFrags, MaxLongFrags)}

SecretIdle ==
    /\ rawA = None
    /\ rawB = None
    /\ shown = [op |-> "new"]

RedactIdle ==
    /\ text = <<>>
    /\ max_length = DefaultMaxLength
    /\ order = ListedOrder
    /\ out = <<>>
    /\ out2 = <<>>
    /\ rpc = "idle"

RedactStart ==
    /\ max_length = DefaultMaxLength
    /\ order = ListedOrder
    /\ out = <<>>
    /\ out2 = <<>>
    /\ rpc = "input"

\* safe_error_message(text, ml)
Sanitize ==
    /\ rpc = "input"
    /\ \E ml \in MaxLengths :
          /\ max_length' = ml
          /\ out' = safe_error_message(text, ml)
    /\ rpc' = "sanitized"
    /\ UNCHANGED <<text, order, out2, secretVars, batchVars>>

\* safe_error_message(text), max_length left at its default
SanitizeDefault ==
    /\ rpc = "input"
    /\ out' = safe_error_message(text, DefaultMaxLength)
    /\ rpc' = "sanitized"
    /\ UNCHANGED <<text, max_length, order, out2, secretVars, batchVars>>

\* safe_error_message(safe_error_message(text))
Resanitize ==
    /\ rpc = "sanitized"
    /\ out2' = safe_error_message(out, DefaultMaxLength)
    /\ rpc' = "resanitized"
    /\ UNCHANGED <<text, max_length, order, out, secretVars, batchVars>>

\* the loop of redact_secrets run over the rules in another order
RedactPermuted ==
    /\ rpc = "input"
    /\ \E ord \in Orders :
          /\ order' = ord
          /\ out' = RedactInOrder(text, ord, 1)
    /\ rpc' = "permuted"
    /\ UNCHANGED <<text, max_length, out2, secretVars, batchVars>>

-----------------------------------------------------------------------------
(* Batch loops: import_testcases.py main / batch_upload, and               *)
(* batch_operations.py batch_create_test_cases / batch_delete_test_cases   *)

\* the largest --batch-size main accepts
ApiLimit == 100

\* inputs: short lists with small batch sizes (zero and negative ones too),
\* and lists and batch sizes around the API limit
MaxItems == 3
MaxBatchSize == 3
NegBatchSize == 1
Items(n) == [k \in 1..n |-> k]
BatchInputs ==
    {<<n, b>> : n \in 0..MaxItems, b \in (0 - NegBatchSize)..MaxBatchSize}
        \cup {<<n, b>> : n \in {ApiLimit, ApiLimit + 1}, b \in {ApiLimit, ApiLimit + 1}}

\* the environment: each variable unset, empty or set
EnvValues == {None, Some(<<>>), Some(<<"v">>)}
EnvNames == <<"FREEPLAY_API_KEY", "FREEPLAY_API_BASE", "FREEPLAY_PROJECT_ID">>

\* response.text of a failed call, and the text of a RequestException
BodyPlain == <<"b","a","d">>
BodySecret == FAuth \o FBearer \o FWord
ExcPlain == <<"t","i","m","e","o","u","t">>
ExcSecret == <<"h","e","a","d","e","r",":"," ">> \o FBearer \o FWord
Bodies == {BodyPlain, BodySecret}
ExcTexts == {ExcPlain, ExcSecret}
\* how many more items than it was sent a 201 response may list in 'data'
ExtraReported == 1

NoErr == [src |-> "none", raw |-> <<>>, printed |-> <<>>]

\* os.environ before any variable has been read
NotRead == [k \in 1..3 |-> None]

BatchIdle ==
    /\ op = "idle"
    /\ test_cases = <<>>
    /\ batch_size = ApiLimit
    /\ verbose = TRUE
    /\ pc = "idle"
    /\ i = 0
    /\ batch_num = 0
    /\ total_batches = 0
    /\ total_uploaded = 0
    /\ successful_batches = 0
    /\ requests = <<>>
    /\ outcomes = <<>>
    /\ lastErr = NoErr
    /\ missing = <<>>
    /\ environ = NotRead
    /\ project_arg = None
    /\ gets = 0

BatchInit ==
    /\ op \in {"import", "create", "delete", "prompts"}
    /\ \E nb \in (IF op = "prompts" THEN {<<0, ApiLimit>>} ELSE BatchInputs) :
          /\ test_cases = Items(nb[1])
          /\ batch_size = nb[2]
    /\ verbose \in (IF op \in {"import", "prompts"} THEN {TRUE} ELSE BOOLEAN)
    /\ pc = "start"
    /\ i = 0
    /\ batch_num = 0
    /\ total_batches = 0
    /\ total_uploaded = 0
    /\ successful_batches = 0
    /\ requests = <<>>
    /\ outcomes = <<>>
    /\ lastErr = NoErr
    /\ missing = <<>>
    /\ environ = NotRead
    /\ project_arg \in (IF op = "prompts" THEN EnvValues ELSE {None})
    /\ gets = 0

\* (len + batch_size - 1) // batch_size: floor division, for a negative
\* batch_size too
TotalBatches(n, b) == (n + b - 1) \div b

\* test_cases[i:i + batch_size]
Chunk(cases, start, b) ==
    SubSeq(cases, start + 1, IF start + b < Len(cases) THEN start + b ELSE Len(cases))

\* get_freeplay_config with `is None` in place of `not`: an empty value
\* counts as set
MissingOfNoneOnly(env) == SelectSeq(EnvNames, LAMBDA name :
    ~env[CHOOSE k \in 1..3 : EnvNames[k] = name].some)

\* the names get_freeplay_config collects in missing
MissingOf(env) == SelectSeq(EnvNames, LAMBDA name :
    ~Truthy(env[CHOOSE k \in 1..3 : EnvNames[k] = name]))

\* main of import_testcases.py up to the loop of batch_upload: the batch
\* size is validated, then the environment (the first variable that is not
\* set ends the run), then the list loaded from the file must not be empty.
\* test_cases is the list load_jsonl / load_csv returned.
ImportMain ==
    /\ pc = "start"
    /\ op = "import"
    /\ \E env \in [1..3 -> EnvValues] :
       /\ environ' = env
       /\ IF batch_size < 1 \/ batch_size > ApiLimit
            THEN /\ pc' = "exit_usage"
                 /\ UNCHANGED <<missing, total_batches>>
            ELSE IF ~SecretBool(env[1])
            THEN /\ pc' = "exit_config"
                 /\ missing' = <<EnvNames[1]>>
                 /\ UNCHANGED total_batches
            ELSE IF ~Truthy(env[2])
            THEN /\ pc' = "exit_config"
                 /\ missing' = <<EnvNames[2]>>
                 /\ UNCHANGED total_batches
            ELSE IF ~Truthy(env[3])
            THEN /\ pc' = "exit_config"
                 /\ missing' = <<EnvNames[3]>>
                 /\ UNCHANGED total_batches
            ELSE IF Len(test_cases) = 0
            THEN /\ pc' = "exit_empty"
                 /\ UNCHANGED <<missing, total_batches>>
            ELSE /\ pc' = "loop"
                 /\ total_batches' = TotalBatches(Len(test_cases), batch_size)
                 /\ UNCHANGED missing
    /\ UNCHANGED <<op, test_cases, batch_size, verbose, i, batch_num,
                   total_uploaded, successful_batches, requests, outcomes,
                   lastErr, project_arg, gets, secretVars, redactVars>>

\* batch_create_test_cases / batch_delete_test_cases up to the loop:
\* get_freeplay_config, then total_batches (a ZeroDivisionError when
\* batch_size is 0)
BatchStart ==
    /\ pc = "start"
    /\ op \in {"create", "delete"}
    /\ \E env \in [1..3 -> EnvValues] :
       /\ environ' = env
       /\ IF MissingOf(env) # <<>>
            THEN /\ pc' = "exit_config"
                 /\ missing' = MissingOf(env)
                 /\ UNCHANGED total_batches
            ELSE IF batch_size = 0
            THEN /\ pc' = "crashed"
                 /\ UNCHANGED <<missing, total_batches>>
            ELSE /\ pc' = "loop"
                 /\ total_batches' = TotalBatches(Len(test_cases), batch_size)
                 /\ UNCHANGED missing
    /\ UNCHANGED <<op, test_cases, batch_size, verbose, i, batch_num,
                   total_uploaded, successful_batches, requests, outcomes,
                   lastErr, project_arg, gets, secretVars, redactVars>>

\* range(0, len(test_cases), batch_size) yields i: a range with a negative
\* step that starts at 0 is empty
LoopRuns == batch_size > 0 /\ i < Len(test_cases)

\* one turn of the loop up to requests.post / requests.delete
SendRequest ==
    /\ pc = "loop"
    /\ LoopRuns
    /\ requests' = Append(requests,
                     [start |-> i, items |-> Chunk(test_cases, i, batch_size)])
    /\ batch_num' = i \div batch_size + 1
    /\ pc' = "waiting"
    /\ UNCHANGED <<op, test_cases, batch_size, verbose, i, total_batches,
                   total_uploaded, successful_batches, outcomes, lastErr,
                   missing, secretVars, redactVars,
                   environ, project_arg, gets>>

LastBatch == requests[Len(requests)].items

\* the call returns 201 (200 for delete): the count of the response's 'data'
\* is added for an upload, len(batch) for a delete
ResponseSuccess ==
    /\ pc = "waiting"
    /\ \E uploaded \in 0..(Len(LastBatch) + ExtraReported) :
          /\ op = "delete" => uploaded = Len(LastBatch)
          /\ total_uploaded' = total_uploaded + uploaded
          /\ outcomes' = Append(outcomes, [kind |-> "success", reported |-> uploaded])
    /\ successful_batches' =
          IF op = "import" THEN successful_batches + 1 ELSE successful_batches
    /\ i' = i + batch_size
    /\ pc' = "loop"
    /\ UNCHANGED <<op, test_cases, batch_size, verbose, batch_num,
                   total_batches, requests, lastErr, missing,
                   secretVars, redactVars,
                   environ, project_arg, gets>>

\* the call returns another status: the status and the response text are
\* printed (batch_upload passes the text through safe_error_message)
ResponseOther ==
    /\ pc = "waiting"
    /\ \E body \in Bodies :
          lastErr' =
             IF op = "import"
             THEN [src |-> "response", raw |-> body,
                   printed |-> safe_error_message(body, DefaultMaxLength)]
             ELSE IF verbose
             THEN [src |-> "response", raw |-> body, printed |-> body]
             ELSE lastErr
    /\ outcomes' = Append(outcomes, [kind |-> "status", reported |-> 0])
    /\ i' = i + batch_size
    /\ pc' = "loop"
    /\ UNCHANGED <<op, test_cases, batch_size, verbose, batch_num,
                   total_batches, total_uploaded, successful_batches,
                   requests, missing, secretVars, redactVars,
                   environ, project_arg, gets>>

\* the call raises requests.RequestException: its text is printed
RequestException ==
    /\ pc = "waiting"
    /\ \E e \in ExcTexts :
          lastErr' =
             IF op = "import" \/ verbose
             THEN [src |-> "exception", raw |-> e, printed |-> e]
             ELSE lastErr
    /\ outcomes' = Append(outcomes, [kind |-> "exception", reported |-> 0])
    /\ i' = i + batch_size
    /\ pc' = "loop"
    /\ UNCHANGED <<op, test_cases, batch_size, verbose, batch_num,
                   total_batches, total_uploaded, successful_batches,
                   requests, missing, secretVars, redactVars,
                   environ, project_arg, gets>>

\* the call returns 201 and response.json() is not an object whose 'data'
\* has a length (a list, {"data": null}, {"data": 5}): result.get or len
\* raises AttributeError or TypeError, which the except clause does not
\* catch; the exception leaves the function and the later chunks are not
\* sent (batch_delete_test_cases does not read the body)
ResponseMalformed ==
    /\ pc = "waiting"
    /\ op \in {"import", "create"}
    /\ outcomes' = Append(outcomes, [kind |-> "malformed", reported |-> 0])
    /\ pc' = "crashed"
    /\ UNCHANGED <<op, test_cases, batch_size, verbose, i, batch_num,
                   total_batches, total_uploaded, successful_batches,
                   requests, lastErr, missing, secretVars, redactVars,
                   environ, project_arg, gets>>

\* a slip in the final test: successful_batches < total_batches
FinishByBatches ==
    /\ pc = "loop"
    /\ ~LoopRuns
    /\ pc' = IF op = "import" /\ successful_batches < total_batches
             THEN "exit_failed" ELSE "returned"
    /\ UNCHANGED <<op, test_cases, batch_size, verbose, i, batch_num,
                   total_batches, total_uploaded, successful_batches,
                   requests, outcomes, lastErr, missing,
                   secretVars, redactVars,
                   environ, project_arg, gets>>

\* after the loop: batch_upload exits with status 1 when fewer test cases
\* were uploaded than the list holds; the batch operations return the total
Finish ==
    /\ pc = "loop"
    /\ ~LoopRuns
    /\ pc' = IF op = "import" /\ total_uploaded < Len(test_cases)
             THEN "exit_failed" ELSE "returned"
    /\ UNCHANGED <<op, test_cases, batch_size, verbose, i, batch_num,
                   total_batches, total_uploaded, successful_batches,
                   requests, outcomes, lastErr, missing,
                   secretVars, redactVars,
                   environ, project_arg, gets>>

\* the names get_config collects in missing: the key and the base only
MissingOfConfig(env) ==
    (IF ~SecretBool(env[1]) THEN <<EnvNames[1]>> ELSE <<>>)
        \o (IF ~Truthy(env[2]) THEN <<EnvNames[2]>> ELSE <<>>)

\* get_config(project_id_arg): the key and the base from the environment,
\* the project id from the argument; without a project id it calls
\* list_projects, which issues a GET, and exits after it
GetConfig ==
    /\ pc = "start"
    /\ op = "prompts"
    /\ \E env \in [1..3 -> EnvValues] :
       /\ environ' = env
       /\ IF MissingOfConfig(env) # <<>>
            THEN /\ pc' = "exit_config"
                 /\ missing' = MissingOfConfig(env)
                 /\ UNCHANGED gets
            ELSE IF ~Truthy(project_arg)
            THEN /\ pc' = "listing"
                 /\ gets' = gets + 1
                 /\ UNCHANGED missing
            ELSE /\ pc' = "config_ok"
                 /\ UNCHANGED <<missing, gets>>
    /\ UNCHANGED <<op, test_cases, batch_size, verbose, i, batch_num,
                   total_batches, total_uploaded, successful_batches,
                   requests, outcomes, lastErr, project_arg, secretVars,
                   redactVars>>

\* list_projects after requests.get: the projects are printed and get_config
\* calls sys.exit(1); an HTTPError is printed and list_projects calls
\* sys.exit(1); any other exception leaves the process with a traceback
ListProjectsDone ==
    /\ pc = "listing"
    /\ \E result \in {"listed", "http_error", "raised"} :
          pc' = CASE result = "listed" -> "exit_noproject"
                  [] result = "http_error" -> "exit_http"
                  [] OTHER -> "crashed"
    /\ UNCHANGED <<op, test_cases, batch_size, verbose, i, batch_num,
                   total_batches, total_uploaded, successful_batches,
                   requests, outcomes, lastErr, missing, environ,
                   project_arg, gets, secretVars, redactVars>>

BatchNext ==
    \/ ImportMain
    \/ BatchStart
    \/ GetConfig
    \/ ListProjectsDone
    \/ SendRequest
    \/ ResponseSuccess
    \/ ResponseOther
    \/ ResponseMalformed
    \/ RequestException
    \/ Finish

\* the exit status of the process (of the caller's, for a function that
\* returned)
ExitStatus == IF pc \in {"exit_usage", "exit_config", "exit_empty", "exit_failed",
                         "exit_noproject", "exit_http", "crashed"}
              THEN 1 ELSE 0

-----------------------------------------------------------------------------
(* Specifications                                                          *)

SecretSpecInit == SecretInit /\ RedactIdle /\ BatchIdle
SpecSecret == SecretSpecInit /\ [][SecretNext]_vars

RedactInit == SecretIdle /\ text \in ShortTexts /\ RedactStart /\ BatchIdle
RedactNext == Sanitize
SpecRedact == RedactInit /\ [][RedactNext]_vars

OrderInit == SecretIdle /\ text \in OrderTexts /\ RedactStart /\ BatchIdle
OrderNext == RedactPermuted
SpecOrder == OrderInit /\ [][OrderNext]_vars

IdemInit == SecretIdle /\ text \in LongTexts /\ RedactStart /\ BatchIdle
IdemNext == SanitizeDefault \/ Resanitize
SpecIdem == IdemInit /\ [][IdemNext]_vars

BatchSpecInit == SecretIdle /\ RedactIdle /\ BatchInit
SpecBatch == BatchSpecInit /\ [][BatchNext]_vars

-----------------------------------------------------------------------------
(* Properties of SecretString                                              *)

NonEmptyStr(v) == v.some /\ Len(v.v) > 0

\* C1: for every raw value v, str(SecretString(v)) is "[REDACTED]" when v is
\* a non-empty string and "" when v is None or ""; bool(...) is true exactly
\* when v is a non-empty string; get() returns v itself.
C1_SecretStringContract ==
    /\ shown.op = "str" =>
          /\ shown.a = (IF NonEmptyStr(rawA) THEN REDACTED ELSE <<>>)
          /\ shown.b = (IF NonEmptyStr(rawB) THEN REDACTED ELSE <<>>)
    /\ shown.op = "bool" =>
          /\ shown.a = NonEmptyStr(rawA)
          /\ shown.b = NonEmptyStr(rawB)
    /\ shown.op = "get" =>
          /\ shown.a = rawA
          /\ shown.b = rawB

\* a set secret, an empty one and an absent one have been printed
C1_Witness ==
    /\ shown.op = "str"
    /\ NonEmptyStr(rawA)
    /\ rawB = Some(<<>>)
    /\ shown.a = REDACTED
    /\ shown.b = <<>>

\* C2: str and repr (and bool) of a SecretString depend only on whether the
\* secret is set: two secrets that are both set, or both unset, display the
\* same, whatever their values; get() tells any two different values apart.
C2_DisplayIndependentOfValue ==
    /\ (shown.op \in {"str", "repr", "bool"} /\ NonEmptyStr(rawA) = NonEmptyStr(rawB))
          => shown.a = shown.b
    /\ (shown.op = "get" /\ rawA # rawB) => shown.a # shown.b

\* two set secrets of different lengths have been shown by repr
C2_Witness ==
    /\ shown.op = "repr"
    /\ NonEmptyStr(rawA) /\ NonEmptyStr(rawB)
    /\ Len(rawA.v) # Len(rawB.v)
    /\ shown.a = shown.b

-----------------------------------------------------------------------------
(* Properties of safe_error_message and redact_secrets                     *)

\* the text a call with max_length n is said to return, from the redacted text r
Truncated(r, n) == SubSeq(r, 1, n) \o TRUNCATED

\* C3 as stated: for every integer max_length the result is the redacted text
\* when that is at most max_length long, and otherwise its first max_length
\* characters followed by "... [truncated]", of length max_length + 15.
C3_Original ==
    rpc = "sanitized" =>
        LET r == redact_secrets(text) IN
        IF Len(r) <= max_length THEN out = r
        ELSE /\ out = Truncated(r, max_length)
             /\ Len(out) = max_length + Len(TRUNCATED)

\* C3 amended: the same, for every max_length >= 0.
C3_TruncationNonNegative ==
    (rpc = "sanitized" /\ max_length >= 0) =>
        LET r == redact_secrets(text) IN
        IF Len(r) <= max_length THEN out = r
        ELSE /\ out = Truncated(r, max_length)
             /\ Len(out) = max_length + Len(TRUNCATED)

\* a text that was redacted and then cut
C3_Witness ==
    /\ rpc = "sanitized"
    /\ max_length > 0
    /\ redact_secrets(text) # text
    /\ Len(redact_secrets(text)) > max_length
    /\ Len(out) = max_length + Len(TRUNCATED)

\* no rule of _SECRET_PATTERNS matches anywhere in s
PatternFree(s) == \A k \in 1..Len(SECRET_PATTERNS) : ~Matches(s, SECRET_PATTERNS[k])

\* C4: for a text free of secret-like patterns, sanitizing the sanitized text
\* again, with the default max_length, gives the sanitized text.
C4_Idempotent ==
    (rpc = "resanitized" /\ PatternFree(text)) => out2 = out

\* a pattern-free text longer than the default max_length, whose cut form has
\* a label right before the "..." of the marker: the second call redacts and
\* cuts again
C4_Witness ==
    /\ rpc = "resanitized"
    /\ PatternFree(text)
    /\ Len(text) > DefaultMaxLength
    /\ redact_secrets(out) # out
    /\ out2 = out

\* the rules that match somewhere in s
MatchingRules(s) == {k \in 1..Len(SECRET_PATTERNS) : Matches(s, SECRET_PATTERNS[k])}

\* C5 as stated: every order of the rules gives the result of the listed order.
C5_Original ==
    rpc = "permuted" => out = redact_secrets(text)

\* C5 amended: for a text that at most one rule matches, every order of the
\* rules gives the result of the listed order.
C5_OrderIndependentSingleRule ==
    (rpc = "permuted" /\ Cardinality(MatchingRules(text)) <= 1)
        => out = redact_secrets(text)

\* one rule matched and redacted, the rules ran in another order
C5_Witness ==
    /\ rpc = "permuted"
    /\ order # ListedOrder
    /\ Cardinality(MatchingRules(text)) = 1
    /\ out # text
    /\ out = redact_secrets(text)

\* w occurs in s / the number of places w occurs at in s
OccursAt(s, w, p) == p + Len(w) - 1 <= Len(s) /\ SubSeq(s, p, p + Len(w) - 1) = w
Occurrences(s, w) == Cardinality({p \in 1..Len(s) : OccursAt(s, w, p)})
Contains(s, w) == \E p \in 1..Len(s) : OccursAt(s, w, p)

\* C6 as stated: the sanitized form of
\* "Error 401: Authorization: Bearer <t1>, api_key: <t2>" holds exactly two
\* "[REDACTED]" and neither t1 nor t2.
C6_Original ==
    \A t1, t2 \in Tokens :
        (rpc = "sanitized" /\ max_length = DefaultMaxLength /\ text = Scenario(t1, t2))
            => /\ Occurrences(out, REDACTED) = 2
               /\ ~Contains(out, t1)
               /\ ~Contains(out, t2)

\* C6 amended: it holds exactly three "[REDACTED]" (the Bearer token, the
\* word "Bearer" as the Authorization value, the api_key value) and neither
\* t1 nor t2.
C6_ScenarioThreeRedactions ==
    \A t1, t2 \in Tokens :
        (rpc = "sanitized" /\ max_length = DefaultMaxLength /\ text = Scenario(t1, t2))
            => /\ Occurrences(out, REDACTED) = 3
               /\ ~Contains(out, t1)
               /\ ~Contains(out, t2)

\* the scenario of the specification has been sanitized
C6_Witness ==
    /\ rpc = "sanitized"
    /\ max_length = DefaultMaxLength
    /\ text = Scenario(<<"a","b","c","d","e","f","g","h","i","j">>,
                       <<"z","z","z","z","z","z">>)
    /\ Contains(out, <<"a","p","i","_","k","e","y",":"," ">> \o REDACTED)

-----------------------------------------------------------------------------
(* Properties of the batch loops                                           *)

\* C7: every failure text a batch loop prints for a failed chunk (the
\* response text or the exception text) is what safe_error_message makes of
\* it.
C7_FailureTextSanitized ==
    lastErr.src # "none"
        => lastErr.printed = safe_error_message(lastErr.raw, DefaultMaxLength)

\* C8: every HTTP call of batch_upload, batch_create_test_cases and
\* batch_delete_test_cases carries at most 100 items.
C8_AtMostApiLimitItems ==
    \A k \in 1..Len(requests) : Len(requests[k].items) <= ApiLimit

\* the least q with q * b >= n: ceil(n / b), for b >= 1
CeilDiv(n, b) == CHOOSE q \in 0..n : q * b >= n /\ (q = 0 \/ (q - 1) * b < n)

Failed(k) == outcomes[k].kind # "success"
AfterLoop == pc \in {"returned", "exit_failed"}

\* the run of a batch operation is over, by a return, an exit or a traceback
RunOver == op \in {"import", "create", "delete"}
              /\ pc \in {"returned", "exit_failed", "crashed"}

\* C9: for batch_size >= 1, whatever the outcomes of the calls, the chunks
\* are requested once each in increasing order of their index; a call is
\* issued only when every earlier call has completed or failed; no outcome of
\* a call ends the loop (nothing is left unsent when the run is over) and the
\* run is over after ceil(n / batch_size) calls.
C9_SequentialAllChunks ==
    (op \in {"import", "create", "delete"} /\ batch_size >= 1) =>
        /\ \A k \in 1..Len(requests) : requests[k].start = (k - 1) * batch_size
        /\ Len(requests) = Len(outcomes) + (IF pc = "waiting" THEN 1 ELSE 0)
        /\ pc \in {"loop", "waiting"} => ENABLED BatchNext
        /\ RunOver => Len(requests) = CeilDiv(Len(test_cases), batch_size)

RECURSIVE SumReported(_)
SumReported(os) ==
    IF os = <<>> THEN 0 ELSE Head(os).reported + SumReported(Tail(os))

\* C10 as stated: once every chunk has been attempted, batch_upload exits
\* with a non-zero status when a call failed and returns when none did.
C10_Original ==
    (op = "import" /\ AfterLoop)
        => (ExitStatus # 0 <=> \E k \in 1..Len(outcomes) : Failed(k))

\* C10 amended: a run of batch_upload that the handling of a 201 response
\* ends with an exception (a body without a sized 'data') has a non-zero
\* status; a run whose loop reaches its end has met no such response, and
\* exits with a non-zero status exactly when the 201 responses report fewer
\* test cases in all than the list holds; when every 201 response reports as
\* many as its chunk held, that is exactly when a call failed.
C10_ExitReflectsUploadedCount ==
    /\ (op = "import" /\ pc = "crashed") =>
          /\ ExitStatus # 0
          /\ outcomes # <<>>
          /\ outcomes[Len(outcomes)].kind = "malformed"
    /\ (op = "import" /\ AfterLoop) =>
        /\ \A k \in 1..Len(outcomes) : outcomes[k].kind # "malformed"
        /\ ExitStatus # 0 <=> SumReported(outcomes) < Len(test_cases)
        /\ (\A k \in 1..Len(outcomes) :
               ~Failed(k) => outcomes[k].reported = Len(requests[k].items))
             => (ExitStatus # 0 <=> \E k \in 1..Len(outcomes) : Failed(k))

\* a run of several chunks, one of them failed, ended with status 1
C10_Witness ==
    /\ op = "import"
    /\ pc = "exit_failed"
    /\ Len(outcomes) >= 2
    /\ Failed(2)
    /\ ~Failed(1)
    /\ outcomes[1].reported = Len(requests[1].items)

-----------------------------------------------------------------------------
(* Properties of the configuration checks                                  *)

\* the variables of the environment that are unset or empty
UnsetVars == {k \in 1..3 : ~NonEmptyStr(environ[k])}

\* the names of the variables of K, in the order of EnvNames
NamesOf(K) ==
    (IF 1 \in K THEN <<"FREEPLAY_API_KEY">> ELSE <<>>)
        \o (IF 2 \in K THEN <<"FREEPLAY_API_BASE">> ELSE <<>>)
        \o (IF 3 \in K THEN <<"FREEPLAY_PROJECT_ID">> ELSE <<>>)

First(K) == CHOOSE k \in K : \A j \in K : k <= j

EntryRan == pc # "start"
NoHttp == requests = <<>> /\ gets = 0
ValidBatchSize == batch_size >= 1 /\ batch_size <= ApiLimit

\* C11 as stated: once an entry point has run with one of the three
\* variables unset or empty, it has printed the names of the missing
\* variables and exited with a non-zero status without any HTTP request.
C11_Original ==
    (EntryRan /\ UnsetVars # {}) =>
        /\ pc = "exit_config"
        /\ ExitStatus # 0
        /\ missing = NamesOf(UnsetVars)
        /\ NoHttp

\* C11 amended: with a variable unset or empty, get_freeplay_config prints
\* the names of all the missing variables and exits non-zero without an HTTP
\* request; main of import_testcases, given a batch size of 1..100, prints
\* the name of the first missing variable only, and exits non-zero without
\* an HTTP request (given another batch size it exits non-zero before it
\* reads the environment); get_config requires the key and the base only: it
\* prints those that are missing and exits non-zero without an HTTP request,
\* it never reads FREEPLAY_PROJECT_ID, and with the key and the base set it
\* returns when --project-id is given and, when it is not, issues one GET
\* (list_projects) before it exits non-zero.
C11_MissingConfigExits ==
    EntryRan =>
        /\ (op \in {"create", "delete"} /\ UnsetVars # {}) =>
              /\ pc = "exit_config"
              /\ ExitStatus # 0
              /\ missing = NamesOf(UnsetVars)
              /\ NoHttp
        /\ (op = "import" /\ ValidBatchSize /\ UnsetVars # {}) =>
              /\ pc = "exit_config"
              /\ ExitStatus # 0
              /\ missing = NamesOf({First(UnsetVars)})
              /\ NoHttp
        /\ (op = "import" /\ ~ValidBatchSize) =>
              /\ pc = "exit_usage"
              /\ ExitStatus # 0
              /\ missing = <<>>
              /\ NoHttp
        /\ (op = "prompts" /\ UnsetVars \cap {1, 2} # {}) =>
              /\ pc = "exit_config"
              /\ ExitStatus # 0
              /\ missing = NamesOf(UnsetVars \cap {1, 2})
              /\ NoHttp
        /\ (op = "prompts" /\ UnsetVars \cap {1, 2} = {}) =>
              /\ missing = <<>>
              /\ requests = <<>>
              /\ IF NonEmptyStr(project_arg)
                   THEN pc = "config_ok" /\ gets = 0 /\ ExitStatus = 0
                   ELSE /\ gets = 1
                        /\ pc \in {"listing", "exit_noproject", "exit_http",
                                   "crashed"}
                        /\ pc # "listing" => ExitStatus # 0

\* get_freeplay_config met an empty key and an unset project id: it printed
\* both names and exited before any request
C11_Witness ==
    /\ op = "create"
    /\ pc = "exit_config"
    /\ environ[1] = Some(<<>>)
    /\ NonEmptyStr(environ[2])
    /\ environ[3] = None
    /\ missing = <<"FREEPLAY_API_KEY", "FREEPLAY_PROJECT_ID">>
    /\ NoHttp

-----------------------------------------------------------------------------
(* Properties of the chunks                                                *)

\* the chunks of the requests, one after the other in request order
RECURSIVE Joined(_)
Joined(rs) == IF rs = <<>> THEN <<>> ELSE Head(rs).items \o Joined(Tail(rs))

\* C12: for every list and every batch_size >= 1, the chunks the loop sends
\* partition the list: in request order they are at every moment a prefix of
\* the list and, once the run is over, the whole list (every item has been
\* sent in exactly one request); every chunk is non-empty; every chunk but
\* the last has exactly batch_size items; and the batch number printed for
\* the last chunk is the printed total, ceil(n / batch_size).
C12_ChunksPartitionList ==
    (op \in {"import", "create", "delete"} /\ batch_size >= 1) =>
        /\ \A k \in 1..Len(requests) :
              /\ Len(requests[k].items) >= 1
              /\ k < CeilDiv(Len(test_cases), batch_size)
                    => Len(requests[k].items) = batch_size
        /\ Len(Joined(requests)) <= Len(test_cases)
        /\ Joined(requests) = SubSeq(test_cases, 1, Len(Joined(requests)))
        /\ RunOver => Joined(requests) = test_cases
        /\ (RunOver /\ Len(test_cases) > 0) =>
              /\ batch_num = total_batches
              /\ total_batches = CeilDiv(Len(test_cases), batch_size)
              /\ batch_num = Len(requests)

====
